---- MODULE Spec2Model ----
\* Model of turbo-tasks' ResolvedVc<T> (vc/resolved.rs): construction, the
\* no-op resolve interceptors, equality / hashing, reads through the wrapped
\* Vc<T>, and the upcast / sidecast / downcast protocol.
EXTENDS Integers, FiniteSets, Sequences, TLC

VARIABLES
    cells,        \* storage: resolved handle -> [ty, content, init]
    resolvedVcs,  \* every ResolvedVc<T> value the computation holds
    vcs,          \* the context-bound Vc<T> values it holds
    outputs,      \* executor: called task -> the cell its output is pinned to
    last          \* the operation performed last, its arguments and result

vars == <<cells, resolvedVcs, vcs, outputs, last>>

-----------------------------------------------------------------------------
\* Bounds of the model.

\* Most cells the storage engine is asked to allocate.
MaxCells == 2

\* Payloads a cell may hold (0 is the inner default, 42 the spec's scenario).
Payloads == {0, 42}

\* The payload constructed with where only the handles matter (Spec).
OnePayload == {0}

\* The task that runs the constructors.
CurrentTask == "task_1"

\* The tasks whose functions are called for their output.
CalleeTasks == {"task_2"}

-----------------------------------------------------------------------------
\* The type universe: concrete value types and capability interfaces.

ValueTypes == {"A", "B"}

ValueTraits == {"I", "J", "S"}

\* Which value types have a transparent read representation over an inner
\* payload (ResolvedVc::cell and Default need VcTransparentRead).
Transparent == {"A"}

\* The static capability table: value type -> the interfaces it implements.
Implements == [T \in ValueTypes |-> IF T = "A" THEN {"I", "S"} ELSE {"I", "J"}]

\* T: Upcast<K>. A value type upcasts to what it implements, an interface to
\* its super-interfaces (S: I).
UpcastTo(T) ==
    IF T \in ValueTypes THEN Implements[T]
    ELSE IF T = "S" THEN {"I"} ELSE {}

\* <K as VcValueType>::get_value_type_id()
get_value_type_id(K) == IF K = "A" THEN 1 ELSE 2

\* <K as VcValueTrait>::get_trait_type_id()
get_trait_type_id(K) == IF K = "I" THEN 1 ELSE IF K = "J" THEN 2 ELSE 3

\* Option<T>
None == [some |-> FALSE]

Some(x) == [some |-> TRUE, val |-> x]

\* What running a function body does besides producing its value: how many
\* times it suspended on the executor and how many cell contents it read.
Ret(v) == [val |-> v, awaits |-> 0, reads |-> 0]

\* Result::Ok / Result::Err of an async fn whose body holds no .await.
Ok(r) == [outcome |-> "Ok", val |-> r.val, awaits |-> r.awaits, reads |-> r.reads]

-----------------------------------------------------------------------------
\* The external collaborators: the opaque handle, the storage, the executor.

\* RawVc::TaskCell(task, CellId {type_id, index})
TaskCell(task, type_id, index) ==
    [kind |-> "TaskCell", task |-> task,
     cell |-> [type_id |-> type_id, index |-> index]]

\* RawVc::TaskOutput(task): a context-bound handle.
TaskOutput(task) == [kind |-> "TaskOutput", task |-> task]

\* Vc<T> { node, _t: PhantomData<T> }
Vc(node, T) == [node |-> node, t |-> T]

\* RawVc::resolved_has_trait: cached metadata of a resolved handle.
resolved_has_trait(raw_vc, trait_id) ==
    /\ raw_vc.kind = "TaskCell"
    /\ \E T \in ValueTypes :
          /\ get_value_type_id(T) = raw_vc.cell.type_id
          /\ \E K \in Implements[T] : get_trait_type_id(K) = trait_id

\* RawVc::resolved_is_type
resolved_is_type(raw_vc, type_id) ==
    /\ raw_vc.kind = "TaskCell"
    /\ raw_vc.cell.type_id = type_id

\* Vc::cell_private: allocate a new cell of T in the running task. The cell
\* records its value type, its content and, until it is invalidated, the
\* payload it was created with (init).
Vc_cell_private(T, inner, task, cs) ==
    LET tid == get_value_type_id(T)
        idx == Cardinality({c \in DOMAIN cs :
                              c.task = task /\ c.cell.type_id = tid})
        raw == TaskCell(task, tid, idx)
    IN  [vc |-> Vc(raw, T),
         cells |-> [c \in DOMAIN cs \cup {raw} |->
                      IF c = raw
                      THEN [ty |-> T, content |-> inner, init |-> Some(inner)]
                      ELSE cs[c]]]

\* Vc::cell (transparent value types)
Vc_cell(T, inner, task, cs) == Vc_cell_private(T, inner, task, cs)

\* Vc::upcast: the same handle under another type annotation.
Vc_upcast(vc, K) == Vc(vc.node, K)

\* PartialEq for Vc<T>: the handles are compared.
Vc_eq(a, b) == a.node = b.node

\* Hash for Vc<T>: the handle is fed to the hasher.
Vc_hash(vc, state) ==
    IF vc.node.kind = "TaskCell"
    THEN state \o <<0, vc.node.task, vc.node.cell.type_id, vc.node.cell.index>>
    ELSE state \o <<1, vc.node.task>>

\* IntoFuture for Vc<T>: read the cell's current content as a snapshot.
Vc_into_future(vc, cs, outs) ==
    LET raw == IF vc.node.kind = "TaskCell" THEN vc.node ELSE outs[vc.node.task]
    IN  [val |-> cs[raw].content, awaits |-> 1, reads |-> 1]

\* Vc::to_resolved: the executor pins a context-bound handle to its cell.
Vc_to_resolved(vc, outs) ==
    LET raw == IF vc.node.kind = "TaskCell" THEN vc.node ELSE outs[vc.node.task]
    IN  [outcome |-> "Ok", val |-> [node |-> Vc(raw, vc.t)],
         awaits |-> IF vc.node.kind = "TaskCell" THEN 0 ELSE 1, reads |-> 0]

\* Vc::resolve
Vc_resolve(vc, outs) ==
    LET r == Vc_to_resolved(vc, outs)
    IN  [outcome |-> "Ok", val |-> r.val.node, awaits |-> r.awaits, reads |-> 0]

-----------------------------------------------------------------------------
\* ResolvedVc<T> { node: Vc<T> } and its operations (vc/resolved.rs).

ResolvedVc(node) == [node |-> node]

\* Default::default() of the inner payload.
Inner_default == 0

\* Mutant: re-resolves through the executor instead of returning self.
to_resolved_round_trip(self) ==
    [outcome |-> "Ok", val |-> self, awaits |-> 1, reads |-> 0]

\* pub async fn to_resolved(self) -> Result<Self>
to_resolved(self) == Ok(Ret(self))

\* pub async fn resolve(self) -> Result<Vc<T>>
resolve(self) == Ok(Ret(self.node))

\* impl Clone / Copy
clone(self) == self

\* impl Deref<Target = Vc<T>>
deref(self) == self.node

\* Mutant: compares what the two cells hold.
eq_by_content(self, other) ==
    cells[self.node.node].content = cells[other.node.node].content

\* impl PartialEq
eq(self, other) == Vc_eq(self.node, other.node)

\* Mutant: feeds the cell's content to the hasher as well.
hash_with_content(self, state) ==
    Vc_hash(self.node, state) \o <<cells[self.node.node].content>>

\* impl Hash
hash(self, state) == Vc_hash(self.node, state)

\* impl IntoFuture for ResolvedVc<T>, &ResolvedVc<T>, &mut ResolvedVc<T>
into_future(self, cs, outs) == Vc_into_future(deref(self), cs, outs)

\* pub fn cell_private(inner) -> Self
cell_private(T, inner, task, cs) ==
    LET r == Vc_cell_private(T, inner, task, cs)
    IN  [val |-> ResolvedVc(r.vc), awaits |-> 0, reads |-> 0, cells |-> r.cells]

\* Mutant: wraps the running task's output handle, not the new cell.
cell_unresolved(T, inner, task, cs) ==
    LET r == Vc_cell(T, inner, task, cs)
    IN  [val |-> ResolvedVc(Vc(TaskOutput(task), T)), awaits |-> 0,
         reads |-> 0, cells |-> r.cells]

\* Mutant: stores the default payload and drops the given one.
cell_drops_inner(T, inner, task, cs) ==
    LET r == Vc_cell(T, Inner_default, task, cs)
    IN  [val |-> ResolvedVc(r.vc), awaits |-> 0, reads |-> 0, cells |-> r.cells]

\* pub fn cell(inner: Inner) -> Self
cell(T, inner, task, cs) ==
    LET r == Vc_cell(T, inner, task, cs)
    IN  [val |-> ResolvedVc(r.vc), awaits |-> 0, reads |-> 0, cells |-> r.cells]

\* Mutant: hands out one shared cell holding the default payload.
default_shared(T, task, cs) ==
    LET canon == {c \in DOMAIN cs :
                    cs[c].ty = T /\ cs[c].content = Inner_default}
    IN  IF canon # {}
        THEN [val |-> ResolvedVc(Vc(CHOOSE c \in canon : TRUE, T)),
              awaits |-> 0, reads |-> 0, cells |-> cs]
        ELSE cell(T, Inner_default, task, cs)

\* impl Default: Self::cell(Default::default())
default(T, task, cs) == cell(T, Inner_default, task, cs)

\* pub fn upcast<K>(this: Self) -> ResolvedVc<K>
upcast(this, K) == Ret(ResolvedVc(Vc_upcast(this.node, K)))

\* Mutant: tests the interface the reference already has, not K.
try_sidecast_sync_own_trait(this, K) ==
    LET raw_vc == this.node.node
    IN  Ret(IF resolved_has_trait(raw_vc, get_trait_type_id(this.node.t))
            THEN Some(ResolvedVc(Vc(raw_vc, K)))
            ELSE None)

\* pub fn try_sidecast_sync<K>(this: Self) -> Option<ResolvedVc<K>>
try_sidecast_sync(this, K) ==
    LET raw_vc == this.node.node
    IN  Ret(IF resolved_has_trait(raw_vc, get_trait_type_id(K))
            THEN Some(ResolvedVc(Vc(raw_vc, K)))
            ELSE None)

\* Mutant: reports a cast miss as the reserved ResolveTypeError.
try_sidecast_err_on_miss(this, K) ==
    LET o == try_sidecast_sync(this, K)
    IN  IF o.val.some THEN Ok(o)
        ELSE [outcome |-> "Err", val |-> "ResolveTypeError",
              awaits |-> 0, reads |-> 0]

\* pub async fn try_sidecast<K>(this: Self) -> Result<Option<ResolvedVc<K>>, _>
try_sidecast(this, K) == Ok(try_sidecast_sync(this, K))

\* Mutant: the value-type test of try_downcast_type_sync, fed K's trait id.
try_downcast_sync_is_type(this, K) ==
    LET raw_vc == this.node.node
    IN  Ret(IF resolved_is_type(raw_vc, get_trait_type_id(K))
            THEN Some(ResolvedVc(Vc(raw_vc, K)))
            ELSE None)

\* pub fn try_downcast_sync<K>(this: Self) -> Option<ResolvedVc<K>>
try_downcast_sync(this, K) == try_sidecast_sync(this, K)

\* pub async fn try_downcast<K>(this: Self) -> Result<Option<ResolvedVc<K>>, _>
try_downcast(this, K) == Ok(try_downcast_sync(this, K))

\* Mutant: the interface test of try_sidecast_sync, fed K's value-type id.
try_downcast_type_sync_has_trait(this, K) ==
    LET raw_vc == this.node.node
    IN  Ret(IF resolved_has_trait(raw_vc, get_value_type_id(K))
            THEN Some(ResolvedVc(Vc(raw_vc, K)))
            ELSE None)

\* pub fn try_downcast_type_sync<K>(this: Self) -> Option<ResolvedVc<K>>
try_downcast_type_sync(this, K) ==
    LET raw_vc == this.node.node
    IN  Ret(IF resolved_is_type(raw_vc, get_value_type_id(K))
            THEN Some(ResolvedVc(Vc(raw_vc, K)))
            ELSE None)

\* pub async fn try_downcast_type<K>(this: Self) -> Result<Option<..>, _>
try_downcast_type(this, K) == Ok(try_downcast_type_sync(this, K))

-----------------------------------------------------------------------------
\* The state machine: one action per operation a computation may perform.

\* References whose static type is an interface (T: VcValueTrait).
TraitVcs == {r \in resolvedVcs : r.node.t \in ValueTraits}

\* Static bound K: Upcast<T> + VcValueTrait
SubTraits(T) == {K \in ValueTraits : T \in UpcastTo(K)}

\* Static bound K: Upcast<T> + VcValueType
ImplTypes(T) == {K \in ValueTypes : T \in UpcastTo(K)}

Keep(opt) == IF opt.some THEN {opt.val} ELSE {}

Init ==
    /\ cells = <<>>
    /\ resolvedVcs = {}
    /\ vcs = {}
    /\ outputs = <<>>
    /\ last = [op |-> "init"]

Cell(inners) ==
    \E task \in {CurrentTask}, T \in Transparent, inner \in inners :
        /\ Cardinality(DOMAIN cells) < MaxCells
        /\ LET r == cell(T, inner, task, cells)
           IN  /\ cells' = r.cells
               /\ resolvedVcs' = resolvedVcs \cup {r.val}
               /\ last' = [op |-> "cell", T |-> T, inner |-> inner, out |-> r]
        /\ UNCHANGED <<vcs, outputs>>

CellPrivate(inners) ==
    \E task \in {CurrentTask}, T \in ValueTypes, inner \in inners :
        /\ Cardinality(DOMAIN cells) < MaxCells
        /\ LET r == cell_private(T, inner, task, cells)
           IN  /\ cells' = r.cells
               /\ resolvedVcs' = resolvedVcs \cup {r.val}
               /\ last' = [op |-> "cell_private", T |-> T, inner |-> inner,
                           out |-> r]
        /\ UNCHANGED <<vcs, outputs>>

Default ==
    \E task \in {CurrentTask}, T \in Transparent :
        /\ Cardinality(DOMAIN cells) < MaxCells
        /\ LET r == default(T, task, cells)
           IN  /\ cells' = r.cells
               /\ resolvedVcs' = resolvedVcs \cup {r.val}
               /\ last' = [op |-> "default", T |-> T, out |-> r,
                           earlier |-> IF last.op = "default"
                                       THEN last.earlier \cup {last.out.val}
                                       ELSE {}]
        /\ UNCHANGED <<vcs, outputs>>

ToResolved ==
    \E r \in resolvedVcs :
        /\ LET o == to_resolved(r)
           IN  /\ resolvedVcs' = resolvedVcs \cup {o.val}
               /\ last' = [op |-> "to_resolved", this |-> r, out |-> o]
        /\ UNCHANGED <<cells, vcs, outputs>>

Resolve ==
    \E r \in resolvedVcs :
        /\ last' = [op |-> "resolve", this |-> r, out |-> resolve(r)]
        /\ UNCHANGED <<cells, resolvedVcs, vcs, outputs>>

Clone ==
    \E r \in resolvedVcs :
        /\ resolvedVcs' = resolvedVcs \cup {clone(r)}
        /\ last' = [op |-> "clone", this |-> r, out |-> clone(r)]
        /\ UNCHANGED <<cells, vcs, outputs>>

Compare ==
    \E a \in resolvedVcs, b \in resolvedVcs :
        /\ a.node.t = b.node.t
        /\ last' = [op |-> "eq", this |-> a, other |-> b, out |-> eq(a, b),
                    hashes |-> <<hash(a, <<>>), hash(b, <<>>)>>]
        /\ UNCHANGED <<cells, resolvedVcs, vcs, outputs>>

Read ==
    \E r \in resolvedVcs :
        /\ r.node.t \in ValueTypes
        /\ last' = [op |-> "read", this |-> r,
                    out |-> into_future(r, cells, outputs),
                    prev |-> IF last.op = "invalidate" THEN last.prev ELSE None]
        /\ UNCHANGED <<cells, resolvedVcs, vcs, outputs>>

Upcast ==
    \E r \in resolvedVcs :
        \E K \in UpcastTo(r.node.t) :
            /\ LET o == upcast(r, K)
               IN  /\ resolvedVcs' = resolvedVcs \cup {o.val}
                   /\ last' = [op |-> "upcast", this |-> r, K |-> K, out |-> o]
            /\ UNCHANGED <<cells, vcs, outputs>>

TrySidecastSync ==
    \E r \in TraitVcs, K \in ValueTraits :
        /\ LET o == try_sidecast_sync(r, K)
           IN  /\ resolvedVcs' = resolvedVcs \cup Keep(o.val)
               /\ last' = [op |-> "try_sidecast_sync", this |-> r, K |-> K,
                           out |-> o]
        /\ UNCHANGED <<cells, vcs, outputs>>

TrySidecast ==
    \E r \in TraitVcs, K \in ValueTraits :
        /\ LET o == try_sidecast(r, K)
           IN  /\ resolvedVcs' = resolvedVcs \cup
                      (IF o.outcome = "Ok" THEN Keep(o.val) ELSE {})
               /\ last' = [op |-> "try_sidecast", this |-> r, K |-> K, out |-> o]
        /\ UNCHANGED <<cells, vcs, outputs>>

TryDowncastSync ==
    \E r \in TraitVcs :
        \E K \in SubTraits(r.node.t) :
            /\ LET o == try_downcast_sync(r, K)
               IN  /\ resolvedVcs' = resolvedVcs \cup Keep(o.val)
                   /\ last' = [op |-> "try_downcast_sync", this |-> r, K |-> K,
                               out |-> o]
            /\ UNCHANGED <<cells, vcs, outputs>>

TryDowncast ==
    \E r \in TraitVcs :
        \E K \in SubTraits(r.node.t) :
            /\ LET o == try_downcast(r, K)
               IN  /\ resolvedVcs' = resolvedVcs \cup
                          (IF o.outcome = "Ok" THEN Keep(o.val) ELSE {})
                   /\ last' = [op |-> "try_downcast", this |-> r, K |-> K,
                               out |-> o]
            /\ UNCHANGED <<cells, vcs, outputs>>

TryDowncastTypeSync ==
    \E r \in TraitVcs :
        \E K \in ImplTypes(r.node.t) :
            /\ LET o == try_downcast_type_sync(r, K)
               IN  /\ resolvedVcs' = resolvedVcs \cup Keep(o.val)
                   /\ last' = [op |-> "try_downcast_type_sync", this |-> r,
                               K |-> K, out |-> o]
            /\ UNCHANGED <<cells, vcs, outputs>>

TryDowncastType ==
    \E r \in TraitVcs :
        \E K \in ImplTypes(r.node.t) :
            /\ LET o == try_downcast_type(r, K)
               IN  /\ resolvedVcs' = resolvedVcs \cup
                          (IF o.outcome = "Ok" THEN Keep(o.val) ELSE {})
                   /\ last' = [op |-> "try_downcast_type", this |-> r, K |-> K,
                               out |-> o]
            /\ UNCHANGED <<cells, vcs, outputs>>

\* A call of a task function whose output is r's cell: a context-bound Vc.
VcCall ==
    \E task \in CalleeTasks, r \in resolvedVcs :
        /\ task \notin DOMAIN outputs
        /\ outputs' = [t \in DOMAIN outputs \cup {task} |->
                         IF t = task THEN r.node.node ELSE outputs[t]]
        /\ vcs' = vcs \cup {Vc(TaskOutput(task), r.node.t)}
        /\ last' = [op |-> "call", this |-> r, task |-> task]
        /\ UNCHANGED <<cells, resolvedVcs>>

\* Vc::to_resolved().await on a context-bound or dereferenced Vc.
VcToResolved ==
    \E v \in vcs \cup {deref(r) : r \in resolvedVcs} :
        /\ LET o == Vc_to_resolved(v, outputs)
           IN  /\ resolvedVcs' = resolvedVcs \cup {o.val}
               /\ last' = [op |-> "vc_to_resolved", this |-> v, out |-> o]
        /\ UNCHANGED <<cells, vcs, outputs>>

\* The storage engine invalidates a cell and recomputes its content.
Invalidate ==
    \E c \in DOMAIN cells, p \in Payloads :
        /\ cells' = [cells EXCEPT ![c].content = p, ![c].init = None]
        /\ last' = [op |-> "invalidate", cell |-> c,
                    prev |-> IF last.op = "read"
                             THEN Some([this |-> last.this, val |-> last.out.val])
                             ELSE None]
        /\ UNCHANGED <<resolvedVcs, vcs, outputs>>

\* Construction, resolution, copies and casts: every way a ResolvedVc is made.
Next ==
    \/ Cell(OnePayload)
    \/ CellPrivate(OnePayload)
    \/ Default
    \/ ToResolved
    \/ Resolve
    \/ Clone
    \/ Upcast
    \/ TrySidecastSync
    \/ TrySidecast
    \/ TryDowncastSync
    \/ TryDowncast
    \/ TryDowncastTypeSync
    \/ TryDowncastType
    \/ VcCall
    \/ VcToResolved

Spec == Init /\ [][Next]_vars

\* The casting protocol on cells of every value type.
NextCast ==
    \/ CellPrivate(Payloads)
    \/ Upcast
    \/ TrySidecastSync
    \/ TrySidecast
    \/ TryDowncastSync
    \/ TryDowncast
    \/ TryDowncastTypeSync
    \/ TryDowncastType

SpecCast == Init /\ [][NextCast]_vars

\* Construction, comparison and reads interleaved with invalidation.
NextRead ==
    \/ Cell(Payloads)
    \/ CellPrivate(Payloads)
    \/ Default
    \/ Clone
    \/ Compare
    \/ Read
    \/ Invalidate

SpecRead == Init /\ [][NextRead]_vars

-----------------------------------------------------------------------------
\* Properties.

\* References whose static type is a concrete value type (T: VcValueType).
TypeVcs == {r \in resolvedVcs : r.node.t \in ValueTypes}

\* The concrete value type the storage recorded for the cell r denotes.
CellType(r) == cells[r.node.node].ty

\* C1: every ResolvedVc that exists wraps a handle of the resolved
\* (concrete-cell) shape, never the context-bound shape, whatever sequence of
\* constructions, resolutions, copies and casts produced it.
C1_AlwaysResolvedShape ==
    \A r \in resolvedVcs : r.node.node.kind = "TaskCell"

\* C1 witness: a context-bound Vc of interface type was resolved into a
\* ResolvedVc that now exists beside cast results.
C1_Witness ==
    /\ last.op = "vc_to_resolved"
    /\ last.this.node.kind = "TaskOutput"
    /\ last.this.t \in ValueTraits
    /\ last.out.val \in resolvedVcs
    /\ last.out.val.node.node.kind = "TaskCell"

\* C2: on a ResolvedVc, to_resolved and resolve succeed without suspending
\* and return the reference (its wrapped Vc) unchanged; applying them again
\* changes nothing.
C2_ResolveIsIdentity ==
    /\ \A r \in resolvedVcs :
          /\ to_resolved(r).outcome = "Ok"
          /\ to_resolved(r).val = r
          /\ to_resolved(r).awaits = 0
          /\ resolve(r).outcome = "Ok"
          /\ resolve(r).val = deref(r)
          /\ resolve(r).awaits = 0
          /\ to_resolved(to_resolved(r).val).val = r
          /\ to_resolved(to_resolved(r).val).awaits = 0
          /\ Vc_resolve(resolve(r).val, outputs).val = deref(r)
          /\ Vc_resolve(resolve(r).val, outputs).awaits = 0
    /\ last.op = "to_resolved" =>
          /\ last.out.outcome = "Ok"
          /\ eq(last.out.val, last.this)
          /\ last.out.awaits = 0
    /\ last.op = "resolve" =>
          /\ last.out.outcome = "Ok"
          /\ Vc_eq(last.out.val, last.this.node)
          /\ last.out.awaits = 0

\* C2 witness: to_resolved was called on an interface-typed reference and
\* gave it back.
C2_Witness ==
    /\ last.op = "to_resolved"
    /\ last.this.node.t \in ValueTraits
    /\ last.out.val = last.this

\* C3: try_sidecast_sync to K is present exactly when the cell's concrete
\* value type implements K in the capability table, and no cast reads a
\* cell's content.
C3_SidecastMatchesTable ==
    /\ \A r \in TraitVcs, K \in ValueTraits :
          LET o == try_sidecast_sync(r, K)
          IN  /\ o.val.some <=> K \in Implements[CellType(r)]
              /\ o.val.some => o.val.val = ResolvedVc(Vc(r.node.node, K))
              /\ o.reads = 0
    /\ last.op \in {"try_sidecast_sync", "try_sidecast", "try_downcast_sync",
                    "try_downcast", "try_downcast_type_sync",
                    "try_downcast_type", "upcast"} => last.out.reads = 0
    /\ last.op = "try_sidecast_sync" =>
          (last.out.val.some <=> last.K \in Implements[CellType(last.this)])

\* C3 witness: a sidecast between unrelated interfaces succeeded while some
\* other sidecast on the same state misses.
C3_Witness ==
    /\ last.op = "try_sidecast_sync"
    /\ last.out.val.some
    /\ last.K \notin UpcastTo(last.this.node.t)
    /\ last.this.node.t \notin UpcastTo(last.K)
    /\ \E r \in TraitVcs, K \in ValueTraits : ~try_sidecast_sync(r, K).val.some

\* C4: upcasting an interface-typed reference and downcasting the result
\* back to the original interface is present and gives the same reference.
C4_UpcastDowncastRoundTrip ==
    /\ \A r \in TraitVcs :
          \A K \in UpcastTo(r.node.t) :
              LET d == try_downcast_sync(upcast(r, K).val, r.node.t)
              IN  /\ d.val.some
                  /\ d.val.val = r
                  /\ eq(d.val.val, r)
    /\ (last.op = "try_downcast_sync"
            /\ ResolvedVc(Vc(last.this.node.node, last.K)) \in resolvedVcs) =>
          /\ last.out.val.some
          /\ last.out.val.val.node.node = last.this.node.node

\* C4 witness: a reference upcast from S to I was downcast back to S.
C4_Witness ==
    /\ last.op = "try_downcast_sync"
    /\ last.this.node.t = "I"
    /\ last.K = "S"
    /\ last.out.val.some
    /\ upcast(last.out.val.val, "I").val = last.this

\* C5: equality is an equivalence that holds exactly when both references
\* denote the same cell, whatever the cells hold, and equal references hash
\* alike.
C5_EqualityIsCellIdentity ==
    /\ \A a \in resolvedVcs : eq(a, a)
    /\ \A a \in resolvedVcs, b \in resolvedVcs :
          a.node.t = b.node.t =>
              /\ eq(a, b) <=> eq(b, a)
              /\ eq(a, b) <=> a.node.node = b.node.node
              /\ eq(a, b) => hash(a, <<>>) = hash(b, <<>>)
              /\ \A c \in resolvedVcs :
                    (c.node.t = a.node.t /\ eq(a, b) /\ eq(b, c)) => eq(a, c)
    /\ last.op = "eq" =>
          /\ last.out <=> last.this.node.node = last.other.node.node
          /\ last.out => last.hashes[1] = last.hashes[2]

\* C5 witness: a comparison of two copies came out equal with equal hashes
\* while two other references are unequal though their cells hold the same.
C5_Witness ==
    /\ last.op = "eq"
    /\ last.out
    /\ last.hashes[1] = last.hashes[2]
    /\ \E a \in TypeVcs, b \in TypeVcs :
          /\ a.node.t = b.node.t
          /\ ~eq(a, b)
          /\ into_future(a, cells, outputs).val = into_future(b, cells, outputs).val

\* C6: whatever is read or invalidated, equal references stay equal and
\* every reference keeps its hash, and two equal references read in the same
\* state observe the same snapshot.
C6_EqualStaysEqual ==
    [][/\ \A a \in resolvedVcs, b \in resolvedVcs :
              (a.node.t = b.node.t /\ eq(a, b)) =>
                  /\ eq(a, b)'
                  /\ hash(a, <<>>)' = hash(b, <<>>)'
       /\ \A a \in resolvedVcs : hash(a, <<>>)' = hash(a, <<>>)
       /\ \A a \in TypeVcs, b \in TypeVcs :
              (a.node.t = b.node.t /\ eq(a, b)) =>
                  into_future(a, cells, outputs).val
                      = into_future(b, cells, outputs).val]_vars

\* C6 witness: the same reference was read before and after an invalidation
\* and the two snapshots differ.
C6_Witness ==
    /\ last.op = "read"
    /\ last.prev.some
    /\ eq(last.prev.val.this, last.this)
    /\ last.prev.val.val # last.out.val

\* C7: each default construction allocates a cell no existing reference
\* denotes, holding the inner default, so default-constructed references are
\* pairwise unequal.
C7_DefaultAllocatesNewCell ==
    [][(last'.op = "default" /\ last' # last) =>
          /\ last'.out.val \notin resolvedVcs
          /\ \A r \in resolvedVcs : ~eq(last'.out.val, r)
          /\ \A e \in last'.earlier : ~eq(e, last'.out.val)
          /\ last'.out.val.node.node \notin DOMAIN cells
          /\ into_future(last'.out.val, cells', outputs').val
                 = Inner_default]_vars

\* C7 witness: two default constructions in a row gave unequal references
\* that both read as the default.
C7_Witness ==
    /\ last.op = "default"
    /\ \E e \in last.earlier :
          /\ ~eq(e, last.out.val)
          /\ into_future(e, cells, outputs).val = Inner_default
          /\ into_future(last.out.val, cells, outputs).val = Inner_default

\* C8: a reference constructed with cell / cell_private reads as the payload
\* it was constructed with until the cell is invalidated, and construction
\* does not suspend.
C8_CellThenRead ==
    /\ \A r \in TypeVcs :
          cells[r.node.node].init.some =>
              into_future(r, cells, outputs).val = cells[r.node.node].init.val
    /\ last.op \in {"cell", "cell_private"} =>
          /\ into_future(last.out.val, cells, outputs).val = last.inner
          /\ last.out.awaits = 0
    /\ (last.op = "read" /\ cells[last.this.node.node].init.some) =>
          last.out.val = cells[last.this.node.node].init.val

\* C8 witness: a cell constructed with 42 and never invalidated was read.
C8_Witness ==
    /\ last.op = "read"
    /\ cells[last.this.node.node].init = Some(42)
    /\ last.out.val = 42

\* C9: try_downcast_type_sync to value type K is present exactly when the
\* handle's value-type identity is K's; a concrete reference upcast to an
\* interface casts back to its own type, the same cell with the same content.
C9_DowncastTypeMatchesIdentity ==
    /\ \A r \in TraitVcs :
          \A K \in ImplTypes(r.node.t) :
              LET o == try_downcast_type_sync(r, K)
              IN  /\ o.val.some <=>
                         r.node.node.cell.type_id = get_value_type_id(K)
                  /\ o.val.some <=> CellType(r) = K
                  /\ o.val.some => o.val.val.node.node = r.node.node
    /\ \A c \in TypeVcs :
          \A K \in UpcastTo(c.node.t) :
              LET o == try_downcast_type_sync(upcast(c, K).val, c.node.t)
              IN  /\ o.val.some
                  /\ o.val.val = c
                  /\ into_future(o.val.val, cells, outputs).val
                         = into_future(c, cells, outputs).val

\* C9 witness: a downcast to the cell's own value type succeeded while a
\* downcast to another value type implementing the same interface misses.
C9_Witness ==
    /\ last.op = "try_downcast_type_sync"
    /\ last.out.val.some
    /\ last.out.val.val \in TypeVcs
    /\ into_future(last.out.val.val, cells, outputs).val = 42
    /\ \E K \in ImplTypes(last.this.node.t) :
          ~try_downcast_type_sync(last.this, K).val.some

\* C10: try_sidecast, try_downcast and try_downcast_type always complete
\* with Ok, without suspending, carrying exactly what the synchronous cast
\* returns.
C10_AsyncCastsAgree ==
    /\ \A r \in TraitVcs :
          /\ \A K \in ValueTraits :
                /\ try_sidecast(r, K).outcome = "Ok"
                /\ try_sidecast(r, K).awaits = 0
                /\ try_sidecast(r, K).val = try_sidecast_sync(r, K).val
          /\ \A K \in SubTraits(r.node.t) :
                /\ try_downcast(r, K).outcome = "Ok"
                /\ try_downcast(r, K).awaits = 0
                /\ try_downcast(r, K).val = try_downcast_sync(r, K).val
          /\ \A K \in ImplTypes(r.node.t) :
                /\ try_downcast_type(r, K).outcome = "Ok"
                /\ try_downcast_type(r, K).awaits = 0
                /\ try_downcast_type(r, K).val
                       = try_downcast_type_sync(r, K).val
    /\ last.op \in {"try_sidecast", "try_downcast", "try_downcast_type"} =>
          /\ last.out.outcome = "Ok"
          /\ last.out.awaits = 0

\* C10 witness: an asynchronous sidecast that misses completed with Ok(None).
C10_Witness ==
    /\ last.op = "try_sidecast"
    /\ last.out.outcome = "Ok"
    /\ ~last.out.val.some
    /\ ~try_sidecast_sync(last.this, last.K).val.some

====
